---- MODULE Spec2Model ----
(***************************************************************************)
(* Model of src/channels/connection.rs: the ConnectionChannel of rust-cast. *)
(* The channel keeps a lock-guarded set of destinations it believes         *)
(* connected, emits CONNECT / CLOSE messages through the shared             *)
(* MessageManager and decodes inbound messages of its namespace.            *)
(***************************************************************************)
EXTENDS Integers, Sequences, FiniteSets, TLC

(***************************************************************************)
(* Program constants (connection.rs:15-19).                                 *)
(***************************************************************************)
CHANNEL_NAMESPACE == "urn:x-cast:com.google.cast.tp.connection"
CHANNEL_USER_AGENT == "RustCast"
MESSAGE_TYPE_CONNECT == "CONNECT"
MESSAGE_TYPE_CLOSE == "CLOSE"

(***************************************************************************)
(* Bounds and input domains.                                                *)
(***************************************************************************)
MaxCalls == 3
MaxMembers == 2

Threads == {"t1", "t2"}
Destinations == {"receiver-0", "app-1"}
Sender == "sender-0"

(***************************************************************************)
(* Result<T, Error> and the Error values that occur.                        *)
(***************************************************************************)
Ok(v) == [tag |-> "Ok", val |-> v]
Err(e) == [tag |-> "Err", val |-> e]
Running == [tag |-> "Running", val |-> [unit |-> "()"]]
Unit == [unit |-> "()"]

ErrorInternal(msg) == [kind |-> "Internal", msg |-> msg]
ErrorSerialization(msg) == [kind |-> "Serialization", msg |-> msg]
TransportErrors == { [kind |-> "Io", msg |-> "broken pipe"],
                     [kind |-> "Protobuf", msg |-> "encode failed"] }

(***************************************************************************)
(* JSON text is a sequence of lexical tokens; serde_json::Value is a tagged *)
(* value whose Object variant is a map from keys to values.                 *)
(***************************************************************************)
P(s) == [t |-> "punct", s |-> s]
S(s) == [t |-> "str", s |-> s]
L(s) == [t |-> "lit", s |-> s]

JNull == [k |-> "Null", v |-> <<>>]
JBool(b) == [k |-> "Bool", v |-> <<b>>]
JNumber(n) == [k |-> "Number", v |-> <<n>>]
JString(s) == [k |-> "String", v |-> <<s>>]
JArray(a) == [k |-> "Array", v |-> a]
JObject(m) == [k |-> "Object", v |-> m]

EmptyMap == [x \in {} |-> JNull]
MapInsert(m, key, val) ==
    [x \in (DOMAIN m) \cup {key} |-> IF x = key THEN val ELSE m[x]]

ParseFail(i) == [ok |-> FALSE, val |-> JNull, next |-> i]
ParseOk(v, i) == [ok |-> TRUE, val |-> v, next |-> i]

RECURSIVE parse_value(_, _)
RECURSIVE parse_members(_, _, _, _)
RECURSIVE parse_elements(_, _, _, _)

\* serde_json's recursive-descent parser: one JSON value starting at token i.
parse_value(toks, i) ==
    IF i > Len(toks) THEN ParseFail(i)
    ELSE LET tok == toks[i] IN
         CASE tok.t = "str" -> ParseOk(JString(tok.s), i + 1)
           [] tok.t = "lit" /\ tok.s = "null" -> ParseOk(JNull, i + 1)
           [] tok.t = "lit" /\ tok.s = "true" -> ParseOk(JBool(TRUE), i + 1)
           [] tok.t = "lit" /\ tok.s = "false" -> ParseOk(JBool(FALSE), i + 1)
           [] tok.t = "lit" /\ tok.s = "1" -> ParseOk(JNumber(1), i + 1)
           [] tok = P("{") -> parse_members(toks, i + 1, EmptyMap, TRUE)
           [] tok = P("[") -> parse_elements(toks, i + 1, <<>>, TRUE)
           [] OTHER -> ParseFail(i)

\* The members of an object after "{"; a repeated key keeps the last value.
parse_members(toks, i, m, first) ==
    IF i > Len(toks) THEN ParseFail(i)
    ELSE IF first /\ toks[i] = P("}") THEN ParseOk(JObject(m), i + 1)
    ELSE IF toks[i].t # "str" THEN ParseFail(i)
    ELSE IF i + 1 > Len(toks) \/ toks[i + 1] # P(":") THEN ParseFail(i + 1)
    ELSE LET r == parse_value(toks, i + 2) IN
         IF ~r.ok THEN r
         ELSE IF r.next > Len(toks) THEN ParseFail(r.next)
         ELSE IF toks[r.next] = P(",")
              THEN parse_members(toks, r.next + 1,
                                 MapInsert(m, toks[i].s, r.val), FALSE)
         ELSE IF toks[r.next] = P("}")
              THEN ParseOk(JObject(MapInsert(m, toks[i].s, r.val)), r.next + 1)
         ELSE ParseFail(r.next)

\* The elements of an array after "[".
parse_elements(toks, i, a, first) ==
    IF i > Len(toks) THEN ParseFail(i)
    ELSE IF first /\ toks[i] = P("]") THEN ParseOk(JArray(a), i + 1)
    ELSE LET r == parse_value(toks, i) IN
         IF ~r.ok THEN r
         ELSE IF r.next > Len(toks) THEN ParseFail(r.next)
         ELSE IF toks[r.next] = P(",")
              THEN parse_elements(toks, r.next + 1, Append(a, r.val), FALSE)
         ELSE IF toks[r.next] = P("]")
              THEN ParseOk(JArray(Append(a, r.val)), r.next + 1)
         ELSE ParseFail(r.next)

\* The conversion of a serde_json::Error into the crate's Error by `?`.
from_serde_error == ErrorSerialization("serde_json")

\* serde_json::from_str::<Value>: exactly one value, nothing after it.
from_str(text) ==
    LET r == parse_value(text, 1) IN
    IF r.ok /\ r.next = Len(text) + 1 THEN Ok(r.val) ELSE Err(from_serde_error)

\* serde_json::to_string of proxies::connection::ConnectionRequest.
to_string(typ, user_agent) ==
    << P("{"), S("type"), P(":"), S(typ), P(","),
       S("userAgent"), P(":"), S(user_agent), P("}") >>

(***************************************************************************)
(* CastMessage and CastMessagePayload.                                      *)
(***************************************************************************)
PayloadString(text) == [variant |-> "String", data |-> text]
PayloadBinary(bytes) == [variant |-> "Binary", data |-> bytes]

CastMessage(ns, src, dst, payload) ==
    [namespace |-> ns, source |-> src, destination |-> dst, payload |-> payload]

(***************************************************************************)
(* Option<T> as a sequence of length at most one, with the combinators the  *)
(* code uses.                                                               *)
(***************************************************************************)
None == <<>>
Some(x) == <<x>>
unwrap_or(o, default) == IF Len(o) = 0 THEN default ELSE o[1]

as_object(value) == IF value.k = "Object" THEN Some(value.v) ELSE None
map_get(object, key) == IF key \in DOMAIN object THEN Some(object[key]) ELSE None
as_str(value) == IF value.k = "String" THEN Some(value.v[1]) ELSE None

\* .and_then(|object| object.get("type")) and .and_then(|property| property.as_str())
and_then_get(o, key) == IF Len(o) = 0 THEN None ELSE map_get(o[1], key)
and_then_as_str(o) == IF Len(o) = 0 THEN None ELSE as_str(o[1])

(***************************************************************************)
(* ConnectionResponse (connection.rs:21-26).                                *)
(***************************************************************************)
Connect == [variant |-> "Connect", typ |-> "", value |-> JNull]
Close == [variant |-> "Close", typ |-> "", value |-> JNull]
NotImplemented(typ, value) ==
    [variant |-> "NotImplemented", typ |-> typ, value |-> value]

(***************************************************************************)
(* The pure methods of ConnectionChannel.                                   *)
(***************************************************************************)
\* Faulty variant of can_handle: a comparison that ignores case.
can_handle_ignoring_case(message) ==
    message.namespace \in { CHANNEL_NAMESPACE, "URN:X-CAST:COM.GOOGLE.CAST.TP.CONNECTION" }

\* connection.rs:98-100
can_handle(message) == message.namespace = CHANNEL_NAMESPACE

\* connection.rs:114-119
message_type(reply) ==
    unwrap_or(and_then_as_str(and_then_get(as_object(reply), "type")), "")

\* Faulty variant of the mapping: CLOSE is not recognised and the decoded
\* body of an unknown type is dropped.
response_dropping_reply(typ, reply) ==
    CASE typ = MESSAGE_TYPE_CONNECT -> Connect
      [] OTHER -> NotImplemented(typ, JNull)

\* connection.rs:121-125
response(typ, reply) ==
    CASE typ = MESSAGE_TYPE_CONNECT -> Connect
      [] typ = MESSAGE_TYPE_CLOSE -> Close
      [] OTHER -> NotImplemented(typ, reply)

\* Faulty variants of parse: one that reads a binary payload as text, and
\* one that turns a body it cannot decode into a response of empty type.
parse_binary_as_text(message) ==
    LET text == IF message.payload.variant = "String" THEN message.payload.data
                ELSE IF message.payload.data = <<123, 125>> THEN <<P("{"), P("}")>>
                ELSE <<>>
        decoded == from_str(text)
    IN IF decoded.tag = "Err" THEN decoded
       ELSE Ok(response(message_type(decoded.val), decoded.val))

parse_lenient(message) ==
    IF message.payload.variant = "String"
    THEN LET decoded == from_str(message.payload.data) IN
         IF decoded.tag = "Err" THEN Ok(NotImplemented("", JNull))
         ELSE Ok(response(message_type(decoded.val), decoded.val))
    ELSE Err(ErrorInternal("Binary payload is not supported!"))

\* connection.rs:102-128
parse(message) ==
    IF message.payload.variant = "String"
    THEN LET decoded == from_str(message.payload.data) IN
         IF decoded.tag = "Err" THEN decoded
         ELSE Ok(response(message_type(decoded.val), decoded.val))
    ELSE Err(ErrorInternal("Binary payload is not supported!"))

\* Faulty variant of the message of connect: the destination is written
\* into the source field as well.
connect_message_from_destination(sender, destination) ==
    CastMessage(CHANNEL_NAMESPACE, destination, destination,
                PayloadString(to_string(MESSAGE_TYPE_CONNECT, CHANNEL_USER_AGENT)))

\* The message built by connect (connection.rs:63-74).
connect_message(sender, destination) ==
    CastMessage(CHANNEL_NAMESPACE, sender, destination,
                PayloadString(to_string(MESSAGE_TYPE_CONNECT, CHANNEL_USER_AGENT)))

\* The message built by disconnect (connection.rs:85-95).
disconnect_message(sender, destination) ==
    CastMessage(CHANNEL_NAMESPACE, sender, destination,
                PayloadString(to_string(MESSAGE_TYPE_CLOSE, CHANNEL_USER_AGENT)))

\* Faulty variants of the set operations: a membership test that never
\* finds the destination, one that finds it as soon as anything is
\* connected, and an insertion that is lost.
contains_never(set, destination) == FALSE
contains_any(set, destination) == set # {}
insert_lost(set, destination) == set

\* HashSet::contains and HashSet::insert on the locked set.
contains(set, destination) == destination \in set
insert(set, destination) == set \cup {destination}

\* What MessageManager::send may return.
SendResults == {Ok(Unit)} \cup {Err(e) : e \in TransportErrors}

(***************************************************************************)
(* State.                                                                   *)
(*   connections  self.connections                                          *)
(*   sender       self.sender                                               *)
(*   sent         every message handed to self.message_manager.send, in    *)
(*                order, with what send returned and the call that sent it  *)
(*   lock         the holder of the lock around self.connections, or "free" *)
(*   pc, cur      where each caller is, and the call it is executing        *)
(*   calls        every call made on the channel, in order of its start     *)
(***************************************************************************)
VARIABLES connections, sender, sent, lock, pc, cur, calls

vars == <<connections, sender, sent, lock, pc, cur, calls>>

Call(op, arg, result) ==
    [op |-> op, arg |-> arg, result |-> result,
     after |-> {i \in 1..Len(calls) : calls[i].result.tag # "Running"}]

Returned(t, result) ==
    /\ calls' = [calls EXCEPT ![cur[t]].result = result]
    /\ pc' = [pc EXCEPT ![t] = "idle"]
    /\ cur' = [cur EXCEPT ![t] = 0]

\* ConnectionChannel::new (connection.rs:41-50)
new ==
    /\ connections = {}
    /\ sender = Sender
    /\ sent = <<>>
    /\ lock = "free"
    /\ pc = [t \in Threads |-> "idle"]
    /\ cur = [t \in Threads |-> 0]
    /\ calls = <<>>

Init == new

\* Faulty variant of the membership test: the destination is claimed in the
\* set as soon as the test fails, before anything is sent.
connect_contains_claiming(t, destination) ==
    /\ pc[t] = "idle"
    /\ Len(calls) < MaxCalls
    /\ IF contains(connections, destination)
       THEN /\ calls' = Append(calls, Call("connect", [destination |-> destination], Ok(Unit)))
            /\ UNCHANGED <<pc, cur>>
       ELSE /\ calls' = Append(calls, Call("connect", [destination |-> destination], Running))
            /\ pc' = [pc EXCEPT ![t] = "send"]
            /\ cur' = [cur EXCEPT ![t] = Len(calls) + 1]
    /\ connections' = insert(connections, destination)
    /\ lock = "free"
    /\ UNCHANGED <<sender, sent, lock>>

\* Faulty variant of the membership test: the guard of borrow() lives on
\* after the condition when the test fails, as the scrutinee of a match or an
\* if let would.
connect_contains_holding(t, destination) ==
    /\ pc[t] = "idle"
    /\ Len(calls) < MaxCalls
    /\ lock = "free"
    /\ IF contains(connections, destination)
       THEN /\ calls' = Append(calls, Call("connect", [destination |-> destination], Ok(Unit)))
            /\ lock' = "free"
            /\ UNCHANGED <<pc, cur>>
       ELSE /\ calls' = Append(calls, Call("connect", [destination |-> destination], Running))
            /\ pc' = [pc EXCEPT ![t] = "send"]
            /\ cur' = [cur EXCEPT ![t] = Len(calls) + 1]
            /\ lock' = t
    /\ UNCHANGED <<connections, sender, sent>>

\* connect, connection.rs:56-61: the membership test under the lock; the
\* guard of borrow() is a temporary of the condition, so the lock is taken
\* and released within the test.
connect_contains(t, destination) ==
    /\ pc[t] = "idle"
    /\ Len(calls) < MaxCalls
    /\ IF contains(connections, destination)
       THEN /\ calls' = Append(calls, Call("connect", [destination |-> destination], Ok(Unit)))
            /\ UNCHANGED <<pc, cur>>
       ELSE /\ calls' = Append(calls, Call("connect", [destination |-> destination], Running))
            /\ pc' = [pc EXCEPT ![t] = "send"]
            /\ cur' = [cur EXCEPT ![t] = Len(calls) + 1]
    /\ lock = "free"
    /\ lock' = "free"
    /\ UNCHANGED <<connections, sender, sent>>

\* Faulty variant of the send step: the destination is recorded before the
\* outcome of the send is known.
connect_send_recording_first(t) ==
    /\ pc[t] = "send"
    /\ \E r \in SendResults :
         /\ sent' = Append(sent, [message |-> connect_message(sender, calls[cur[t]].arg.destination),
                                  result |-> r, call |-> cur[t]])
         /\ IF r.tag = "Err"
            THEN Returned(t, r)
            ELSE /\ pc' = [pc EXCEPT ![t] = "insert"]
                 /\ UNCHANGED <<cur, calls>>
    /\ connections' = insert(connections, calls[cur[t]].arg.destination)
    /\ UNCHANGED <<sender, lock>>

\* connect, connection.rs:63-74: build the message and send it; `?` returns
\* the error of a failed send.
connect_send(t) ==
    /\ pc[t] = "send"
    /\ \E r \in SendResults :
         /\ sent' = Append(sent, [message |-> connect_message(sender, calls[cur[t]].arg.destination),
                                  result |-> r, call |-> cur[t]])
         /\ IF r.tag = "Err"
            THEN Returned(t, r)
            ELSE /\ pc' = [pc EXCEPT ![t] = "insert"]
                 /\ UNCHANGED <<cur, calls>>
    /\ UNCHANGED <<connections, sender, lock>>

\* connect, connection.rs:76-78: take the lock again (borrow_mut), insert,
\* release it at the end of the statement, return Ok.
connect_insert(t) ==
    /\ pc[t] = "insert"
    /\ lock = "free"
    /\ connections' = insert(connections, calls[cur[t]].arg.destination)
    /\ lock' = "free"
    /\ Returned(t, Ok(Unit))
    /\ UNCHANGED <<sender, sent>>

\* Faulty variants of disconnect: one that forgets the destination once the
\* CLOSE was sent, and one that sends nothing for a destination that is not
\* connected.
disconnect_forgetting(t, destination) ==
    /\ pc[t] = "idle"
    /\ Len(calls) < MaxCalls
    /\ \E r \in SendResults :
         /\ sent' = Append(sent, [message |-> disconnect_message(sender, destination),
                                  result |-> r, call |-> Len(calls) + 1])
         /\ calls' = Append(calls, Call("disconnect", [destination |-> destination], r))
         /\ connections' = IF r.tag = "Ok" THEN connections \ {destination} ELSE connections
    /\ UNCHANGED <<sender, lock, pc, cur>>

disconnect_known_only(t, destination) ==
    /\ pc[t] = "idle"
    /\ Len(calls) < MaxCalls
    /\ IF contains(connections, destination)
       THEN \E r \in SendResults :
              /\ sent' = Append(sent, [message |-> disconnect_message(sender, destination),
                                       result |-> r, call |-> Len(calls) + 1])
              /\ calls' = Append(calls, Call("disconnect", [destination |-> destination], r))
       ELSE /\ calls' = Append(calls, Call("disconnect", [destination |-> destination], Ok(Unit)))
            /\ UNCHANGED sent
    /\ UNCHANGED <<connections, sender, lock, pc, cur>>

\* disconnect, connection.rs:81-96
disconnect(t, destination) ==
    /\ pc[t] = "idle"
    /\ Len(calls) < MaxCalls
    /\ \E r \in SendResults :
         /\ sent' = Append(sent, [message |-> disconnect_message(sender, destination),
                                  result |-> r, call |-> Len(calls) + 1])
         /\ calls' = Append(calls, Call("disconnect", [destination |-> destination], r))
    /\ UNCHANGED <<connections, sender, lock, pc, cur>>

\* A call of can_handle.
call_can_handle(t, message) ==
    /\ pc[t] = "idle"
    /\ Len(calls) < MaxCalls
    /\ calls' = Append(calls, Call("can_handle", message,
                                   [tag |-> "Bool", val |-> [bool |-> can_handle(message)]]))
    /\ UNCHANGED <<connections, sender, sent, lock, pc, cur>>

\* A call of parse.
call_parse(t, message) ==
    /\ pc[t] = "idle"
    /\ Len(calls) < MaxCalls
    /\ calls' = Append(calls, Call("parse", message, parse(message)))
    /\ UNCHANGED <<connections, sender, sent, lock, pc, cur>>

\* Inbound messages offered to can_handle and parse next to connect and
\* disconnect.
InboundMessages ==
    { CastMessage(CHANNEL_NAMESPACE, "receiver-0", Sender,
                  PayloadString(to_string(MESSAGE_TYPE_CLOSE, CHANNEL_USER_AGENT))),
      CastMessage("urn:x-cast:com.google.cast.tp.heartbeat", "receiver-0", Sender,
                  PayloadBinary(<<0, 255>>)) }

Next ==
    \/ \E t \in Threads, d \in Destinations : connect_contains(t, d)
    \/ \E t \in Threads : connect_send(t)
    \/ \E t \in Threads : connect_insert(t)
    \/ \E t \in Threads, d \in Destinations : disconnect(t, d)
    \/ \E t \in Threads, m \in InboundMessages : call_can_handle(t, m)
    \/ \E t \in Threads, m \in InboundMessages : call_parse(t, m)

Spec == Init /\ [][Next]_vars

\* Fair scheduling of the callers and a send that always returns: a call that
\* can take its next step eventually takes it.
SpecFair ==
    Spec /\ \A t \in Threads : WF_vars(connect_send(t)) /\ WF_vars(connect_insert(t))

TypeOK ==
    /\ connections \subseteq Destinations
    /\ lock \in {"free"} \cup Threads
    /\ Len(calls) <= MaxCalls
    /\ \A t \in Threads : pc[t] \in {"idle", "send", "insert"}

(***************************************************************************)
(* Inputs of the pure methods: messages for can_handle, and payloads for    *)
(* parse made of well-formed JSON texts, their proper prefixes, texts with  *)
(* a token too many, and binary payloads.                                   *)
(***************************************************************************)
Namespaces ==
    { CHANNEL_NAMESPACE,
      "URN:X-CAST:COM.GOOGLE.CAST.TP.CONNECTION",
      "urn:x-cast:com.google.cast.tp.connectio",
      "urn:x-cast:com.google.cast.tp.connection2",
      "x-urn:x-cast:com.google.cast.tp.connection",
      "urn:x-cast:com.google.cast.tp.heartbeat",
      "" }

Keys == {"type", "extra"}
MemberValues == { <<S("CONNECT")>>, <<S("CLOSE")>>, <<S("PING")>>, <<S("")>>, <<L("1")>> }
OneMember == { <<S(key), P(":")>> \o value : key \in Keys, value \in MemberValues }

RECURSIVE Members(_)
Members(n) ==
    IF n = 1 THEN OneMember
    ELSE { ms \o <<P(",")>> \o m : ms \in Members(n - 1), m \in OneMember }

ObjectTexts ==
    { <<P("{"), P("}")>> } \cup
    UNION { { <<P("{")>> \o ms \o <<P("}")>> : ms \in Members(n) } : n \in 1..MaxMembers }

OtherTexts ==
    { <<S("CONNECT")>>, <<S("")>>, <<L("1")>>, <<L("null")>>, <<L("true")>>, <<L("false")>>,
      <<P("["), P("]")>>,
      <<P("["), S("CONNECT"), P("]")>>,
      <<P("["), L("1"), P(","), S("type"), P("]")>>,
      <<P("{"), S("type"), P(":"), P("{"), S("type"), P(":"), S("CONNECT"), P("}"), P("}")>>,
      <<P("{"), S("extra"), P(":"), P("{"), S("type"), P(":"), S("CLOSE"), P("}"), P("}")>>,
      <<P("{"), S("type"), P(":"), P("["), S("CLOSE"), P("]"), P("}")>>,
      <<P("{"), S("type"), P(":"), L("null"), P("}")>>,
      <<P("{"), S("Type"), P(":"), S("CONNECT"), P("}")>>,
      <<P("{"), S("type"), P(":"), S("connect"), P("}")>>,
      to_string(MESSAGE_TYPE_CONNECT, CHANNEL_USER_AGENT),
      to_string(MESSAGE_TYPE_CLOSE, CHANNEL_USER_AGENT) }

WellFormedTexts == ObjectTexts \cup OtherTexts

MalformedTexts ==
    { SubSeq(text, 1, n) : text \in { x \in WellFormedTexts : Len(x) > 1 }, n \in 0..1 }
    \cup UNION { { SubSeq(text, 1, n) : n \in 2..(Len(text) - 1) } : text \in WellFormedTexts }
    \cup { text \o <<tok>> : text \in OtherTexts, tok \in {P("}"), P(","), L("1")} }
    \cup { <<L("nul")>>, <<P(":")>>, <<P("{"), S("type"), S("CONNECT"), P("}")>>,
           <<P("{"), S("type"), P(":"), S("CONNECT"), P(","), P("}")>>,
           <<P("{"), L("1"), P(":"), S("CONNECT"), P("}")>> }

BinaryPayloads == { PayloadBinary(<<>>), PayloadBinary(<<123, 125>>) }

ParseMessages ==
    { CastMessage(CHANNEL_NAMESPACE, "receiver-0", Sender, payload) :
        payload \in { PayloadString(text) : text \in WellFormedTexts \cup MalformedTexts }
                    \cup BinaryPayloads }

CanHandleMessages ==
    { CastMessage(ns, src, dst, payload) :
        ns \in Namespaces, src \in {"receiver-0", Sender}, dst \in {Sender, "*"},
        payload \in { PayloadString(to_string(MESSAGE_TYPE_CONNECT, CHANNEL_USER_AGENT)),
                      PayloadString(<<>>), PayloadBinary(<<0>>) } }

\* No call of a pure method has been made yet.
NoPureCall == \A i \in 1..Len(calls) : calls[i].op = "connect"

\* The pure methods on their whole input domain, on a fresh channel or
\* during and after a first connect.
NextPure ==
    \/ \E t \in Threads, d \in Destinations : calls = <<>> /\ connect_contains(t, d)
    \/ \E t \in Threads : connect_send(t)
    \/ \E t \in Threads : connect_insert(t)
    \/ \E t \in Threads, m \in CanHandleMessages : NoPureCall /\ call_can_handle(t, m)
    \/ \E t \in Threads, m \in ParseMessages : NoPureCall /\ call_parse(t, m)

SpecPure == Init /\ [][NextPure]_vars

(***************************************************************************)
(* Vocabulary of the properties.                                            *)
(***************************************************************************)
IsReturned(i) == calls[i].result.tag # "Running"
IsConnectCall(i, d) == calls[i].op = "connect" /\ calls[i].arg.destination = d
IsDisconnectCall(i, d) == calls[i].op = "disconnect" /\ calls[i].arg.destination = d
ConnectCalls(d) == { i \in 1..Len(calls) : IsConnectCall(i, d) }

\* A CONNECT (CLOSE) frame is a message whose body decodes to that type.
IsConnectFrame(m) == parse(m) = Ok(Connect)
IsCloseFrame(m) == parse(m) = Ok(Close)

\* The sends made by call i, and the CONNECT frames passed to the transport
\* for destination d.
SendsOf(i) == { k \in 1..Len(sent) : sent[k].call = i }
ConnectFramesFor(d) ==
    { k \in 1..Len(sent) : IsConnectFrame(sent[k].message) /\ sent[k].message.destination = d }

\* Calls i and j are the only calls of connect(d), j started after i had
\* returned, and j has returned.
TwiceInSequence(d, i, j) ==
    /\ ConnectCalls(d) = {i, j}
    /\ i < j
    /\ i \in calls[j].after
    /\ IsReturned(j)

(***************************************************************************)
(* C1, as stated: for every destination d, calling connect(d) twice in      *)
(* sequence results in exactly one CONNECT frame for d being passed to the  *)
(* transport.                                                               *)
(***************************************************************************)
C1_AsStated ==
    \A d \in Destinations : \A i, j \in 1..Len(calls) :
        TwiceInSequence(d, i, j) => Cardinality(ConnectFramesFor(d)) = 1

(***************************************************************************)
(* C1, amended: for every destination d, calling connect(d) twice in        *)
(* sequence results in exactly one CONNECT frame for d being passed to the  *)
(* transport when the first call returns success; when the first call       *)
(* returns the transport error, the second call passes a second frame.      *)
(***************************************************************************)
C1_TwiceInSequence ==
    \A d \in Destinations : \A i, j \in 1..Len(calls) :
        TwiceInSequence(d, i, j) =>
            Cardinality(ConnectFramesFor(d)) = IF calls[i].result.tag = "Ok" THEN 1 ELSE 2

C1_Witness ==
    \E d \in Destinations : \E i, j \in 1..Len(calls) :
        /\ TwiceInSequence(d, i, j)
        /\ calls[i].result.tag = "Ok"
        /\ calls[j].result.tag = "Ok"
        /\ SendsOf(i) # {}
        /\ SendsOf(j) = {}

(***************************************************************************)
(* C2: for every destination d and every interleaving of concurrent         *)
(* connect(d) calls, at most one CONNECT frame for d is passed to the       *)
(* transport.  Stated for the behaviours in which no send fails, so that    *)
(* only calls that both passed the membership test can produce a second     *)
(* frame.                                                                   *)
(***************************************************************************)
C2_AtMostOneConnectFrame ==
    (\A k \in 1..Len(sent) : sent[k].result.tag = "Ok") =>
        \A d \in Destinations : Cardinality(ConnectFramesFor(d)) <= 1

(***************************************************************************)
(* C3: when connect(d) is called with d not in connected and the send       *)
(* fails, connect returns the error that send returned, and no step of the  *)
(* call (the membership test, the failing send) changes connected.          *)
(***************************************************************************)
C3_FailedConnect ==
    [][ \A t \in Threads :
          /\ (pc[t] = "idle" /\ pc'[t] = "send") => connections' = connections
          /\ (pc[t] = "send" /\ pc'[t] = "idle") =>
                /\ connections' = connections
                /\ Len(sent') = Len(sent) + 1
                /\ sent'[Len(sent')].result.tag = "Err"
                /\ calls'[cur[t]].result = sent'[Len(sent')].result
                /\ sent'[Len(sent')].call = cur[t] ]_vars

C3_Witness ==
    \E i \in 1..Len(calls) : \E e \in TransportErrors :
        /\ calls[i].op = "connect"
        /\ calls[i].result = Err(e)
        /\ \E k \in SendsOf(i) : sent[k].result = Err(e)
        /\ calls[i].arg.destination \notin connections

(***************************************************************************)
(* C4: whenever connect(d) has returned success, d is a member of           *)
(* connected: either d was already a member and the call sent nothing, or   *)
(* the call's one send succeeded and d was inserted.                        *)
(***************************************************************************)
C4_SuccessMeansMember ==
    \A i \in 1..Len(calls) :
        (calls[i].op = "connect" /\ calls[i].result.tag = "Ok") =>
            /\ calls[i].arg.destination \in connections
            /\ \/ SendsOf(i) = {}
               \/ \E k \in 1..Len(sent) :
                    /\ SendsOf(i) = {k}
                    /\ sent[k].result.tag = "Ok"
                    /\ IsConnectFrame(sent[k].message)
                    /\ sent[k].message.destination = calls[i].arg.destination

C4_Witness ==
    \E i, j \in 1..Len(calls) :
        /\ calls[i].op = "connect" /\ calls[i].result.tag = "Ok" /\ SendsOf(i) # {}
        /\ calls[j].op = "connect" /\ calls[j].result.tag = "Ok" /\ SendsOf(j) = {}
        /\ {calls[i].arg.destination, calls[j].arg.destination} \subseteq connections

(***************************************************************************)
(* C5: every call disconnect(d) passes exactly one frame to the transport,  *)
(* a CLOSE frame with destination d, the fixed namespace and the channel's  *)
(* sender, whether or not d is in connected and whether or not connect(d)   *)
(* was ever called, and returns what the transport returned for it.         *)
(***************************************************************************)
C5_DisconnectSendsClose ==
    \A i \in 1..Len(calls) :
        calls[i].op = "disconnect" =>
            \E k \in 1..Len(sent) :
                /\ SendsOf(i) = {k}
                /\ IsCloseFrame(sent[k].message)
                /\ sent[k].message.destination = calls[i].arg.destination
                /\ sent[k].message.namespace = "urn:x-cast:com.google.cast.tp.connection"
                /\ sent[k].message.source = Sender
                /\ calls[i].result = sent[k].result

C5_Witness ==
    \E i, j \in 1..Len(calls) : \E d1, d2 \in Destinations :
        /\ IsDisconnectCall(i, d1) /\ ConnectCalls(d1) = {} /\ d1 \notin connections
        /\ calls[i].result.tag = "Err"
        /\ IsDisconnectCall(j, d2) /\ d2 \in connections
        /\ calls[j].result.tag = "Ok"

(***************************************************************************)
(* C6: connected only ever gains members: no step of connect, disconnect,   *)
(* can_handle or parse removes a destination from it.                       *)
(***************************************************************************)
C6_OnlyGains == [][connections \subseteq connections']_vars

C6_Witness ==
    \E i, j, k \in 1..Len(calls) : \E d \in Destinations :
        /\ IsConnectCall(i, d) /\ calls[i].result.tag = "Ok"
        /\ IsDisconnectCall(j, d) /\ i \in calls[j].after /\ calls[j].result.tag = "Ok"
        /\ calls[k].op \in {"can_handle", "parse"} /\ j \in calls[k].after
        /\ d \in connections

(***************************************************************************)
(* C7: after a successful connect(d) followed by disconnect(d), successful  *)
(* or not, a following connect(d) returns success and passes no frame to    *)
(* the transport.                                                           *)
(***************************************************************************)
C7_SuppressedAfterDisconnect ==
    \A d \in Destinations : \A i, j, k \in 1..Len(calls) :
        ( /\ IsConnectCall(i, d) /\ calls[i].result.tag = "Ok"
          /\ IsDisconnectCall(j, d) /\ i \in calls[j].after
          /\ IsConnectCall(k, d) /\ j \in calls[k].after )
        => /\ calls[k].result = Ok(Unit)
           /\ SendsOf(k) = {}

C7_Witness ==
    \E d \in Destinations : \E i, j, k \in 1..Len(calls) :
        /\ IsConnectCall(i, d) /\ calls[i].result.tag = "Ok" /\ SendsOf(i) # {}
        /\ IsDisconnectCall(j, d) /\ i \in calls[j].after /\ calls[j].result.tag = "Ok"
        /\ IsConnectCall(k, d) /\ j \in calls[k].after
        /\ calls[k].result = Ok(Unit)
        /\ \A n \in ConnectFramesFor(d) : n < CHOOSE c \in SendsOf(j) : TRUE

\* Calls 1 and 2 are connect(d1) and connect(d2) on a fresh channel, the
\* second started after the first returned, and both have returned.
TwoDestinations(d1, d2) ==
    /\ d1 # d2
    /\ Len(calls) = 2
    /\ IsConnectCall(1, d1)
    /\ IsConnectCall(2, d2)
    /\ 1 \in calls[2].after
    /\ IsReturned(2)

(***************************************************************************)
(* C8, as stated: for distinct d1 and d2, connect(d1) followed by           *)
(* connect(d2) on a fresh channel results in exactly one CONNECT frame per  *)
(* destination, and both d1 and d2 are in connected afterwards.             *)
(***************************************************************************)
C8_AsStated ==
    \A d1, d2 \in Destinations :
        TwoDestinations(d1, d2) =>
            /\ Cardinality(ConnectFramesFor(d1)) = 1
            /\ Cardinality(ConnectFramesFor(d2)) = 1
            /\ {d1, d2} \subseteq connections

(***************************************************************************)
(* C8, amended: for distinct d1 and d2, connect(d1) followed by connect(d2) *)
(* on a fresh channel passes exactly one CONNECT frame per destination to   *)
(* the transport, and afterwards connected holds exactly those of d1, d2    *)
(* whose call returned success; membership of d1 never suppresses a connect *)
(* for d2.                                                                  *)
(***************************************************************************)
C8_TwoDestinations ==
    \A d1, d2 \in Destinations :
        TwoDestinations(d1, d2) =>
            /\ Cardinality(ConnectFramesFor(d1)) = 1
            /\ Cardinality(ConnectFramesFor(d2)) = 1
            /\ Cardinality(SendsOf(1)) = 1
            /\ Cardinality(SendsOf(2)) = 1
            /\ connections = { calls[i].arg.destination : i \in { n \in {1, 2} : calls[n].result.tag = "Ok" } }

C8_Witness ==
    \E d1, d2 \in Destinations :
        /\ TwoDestinations(d1, d2)
        /\ calls[1].result.tag = "Ok"
        /\ calls[2].result.tag = "Ok"
        /\ connections = {d1, d2}
        /\ Len(sent) = 2

(***************************************************************************)
(* C9: can_handle(frame) returns true if and only if frame.namespace is     *)
(* exactly the connection namespace string; a variant in another case, a    *)
(* prefix or an extension of it yields false, whatever the source, the      *)
(* destination, the payload and the connected set are.                      *)
(***************************************************************************)
C9_CanHandleExact ==
    \A i \in 1..Len(calls) :
        calls[i].op = "can_handle" =>
            (calls[i].result.val.bool <=>
                calls[i].arg.namespace = "urn:x-cast:com.google.cast.tp.connection")

C9_Witness ==
    \E i \in 1..Len(calls) :
        /\ calls[i].op = "can_handle"
        /\ calls[i].arg.namespace = "URN:X-CAST:COM.GOOGLE.CAST.TP.CONNECTION"
        /\ calls[i].arg.payload.variant = "Binary"
        /\ ~calls[i].result.val.bool
        /\ connections # {}

\* The type field of a decoded body, read as a string: "" when the body is
\* not an object, has no such field, or the field is not a string.
TypeField(body) ==
    IF body.k # "Object" THEN ""
    ELSE IF "type" \notin DOMAIN body.v THEN ""
    ELSE IF body.v["type"].k # "String" THEN ""
    ELSE body.v["type"].v[1]

PingText ==
    << P("{"), S("type"), P(":"), S("PING"), P(","), S("extra"), P(":"), L("1"), P("}") >>
PingBody == JObject([type |-> JString("PING"), extra |-> JNumber(1)])

(***************************************************************************)
(* C10: for every well-formed text payload, parse returns success, and the  *)
(* result is Connect when the type field of the decoded body is "CONNECT",  *)
(* Close when it is "CLOSE", and otherwise Unrecognized(type, v) with v the *)
(* whole decoded body; the body {"type":"PING","extra":1} gives             *)
(* Unrecognized("PING", {"type":"PING","extra":1}).                         *)
(***************************************************************************)
C10_ParseByType ==
    \A i \in 1..Len(calls) :
        ( /\ calls[i].op = "parse"
          /\ calls[i].arg.payload.variant = "String"
          /\ calls[i].arg.payload.data \in WellFormedTexts )
        => LET body == from_str(calls[i].arg.payload.data)
               result == calls[i].result
           IN /\ body.tag = "Ok"
              /\ result.tag = "Ok"
              /\ TypeField(body.val) = "CONNECT" => result.val.variant = "Connect"
              /\ TypeField(body.val) = "CLOSE" => result.val.variant = "Close"
              /\ TypeField(body.val) \notin {"CONNECT", "CLOSE"} =>
                    /\ result.val.variant = "NotImplemented"
                    /\ result.val.typ = TypeField(body.val)
                    /\ result.val.value = body.val
              /\ calls[i].arg.payload.data = PingText =>
                    result.val = NotImplemented("PING", PingBody)

C10_Witness ==
    \E i \in 1..Len(calls) :
        /\ calls[i].op = "parse"
        /\ calls[i].arg.payload.data = PingText
        /\ calls[i].result = Ok(NotImplemented("PING", PingBody))


(***************************************************************************)
(* C11: parse on a message whose payload is Binary returns an error of the  *)
(* internal kind, whatever the bytes are, also when the bytes would be a    *)
(* JSON text; it never returns a ConnectionResponse.                        *)
(***************************************************************************)
C11_BinaryIsInternalError ==
    \A i \in 1..Len(calls) :
        (calls[i].op = "parse" /\ calls[i].arg.payload.variant = "Binary") =>
            /\ calls[i].result.tag = "Err"
            /\ calls[i].result.val.kind = "Internal"

C11_Witness ==
    \E i \in 1..Len(calls) :
        /\ calls[i].op = "parse"
        /\ calls[i].arg.payload = PayloadBinary(<<123, 125>>)
        /\ calls[i].result = Err(ErrorInternal("Binary payload is not supported!"))

(***************************************************************************)
(* C12: parse on a Text payload that does not decode (malformed text)       *)
(* returns an error of the serialization kind, which is not the internal    *)
(* kind of a binary payload, and never a response of empty type.            *)
(***************************************************************************)
C12_MalformedIsSerializationError ==
    \A i \in 1..Len(calls) :
        ( /\ calls[i].op = "parse"
          /\ calls[i].arg.payload.variant = "String"
          /\ calls[i].arg.payload.data \in MalformedTexts )
        => /\ calls[i].result.tag = "Err"
           /\ calls[i].result.val.kind = "Serialization"
           /\ calls[i].result.val.kind # ErrorInternal("").kind

C12_Witness ==
    \E i \in 1..Len(calls) :
        /\ calls[i].op = "parse"
        /\ calls[i].arg.payload =
              PayloadString(<<P("{"), S("type"), P(":"), S("CONNECT")>>)
        /\ calls[i].result.tag = "Err"
        /\ calls[i].result.val.kind = "Serialization"


\* The last CONNECT frame passed to the transport for destination d.
LastConnectFrameFor(d) ==
    CHOOSE k \in ConnectFramesFor(d) : \A n \in ConnectFramesFor(d) : n <= k

(***************************************************************************)
(* C13: in every reachable state, also under concurrent connect calls and   *)
(* a transport that may fail, a destination d in connected has had a        *)
(* CONNECT frame sent for it and the most recent CONNECT send for d did not *)
(* fail.                                                                    *)
(***************************************************************************)
C13_MemberMeansNoFailureSince ==
    \A d \in connections :
        /\ ConnectFramesFor(d) # {}
        /\ sent[LastConnectFrameFor(d)].result.tag = "Ok"

(***************************************************************************)
(* C14: connect holds exclusive access to connected for the whole of its    *)
(* check-send-insert sequence: while one connect call is between its        *)
(* membership test and its insertion, no other connect call is past its own *)
(* membership test.                                                         *)
(***************************************************************************)
C14_ExclusiveCheckSendInsert ==
    \A t1, t2 \in Threads :
        (pc[t1] \in {"send", "insert"} /\ pc[t2] \in {"send", "insert"}) => t1 = t2

\* The body that connect (disconnect) serializes: the type and the constant
\* user agent.
RequestBody(typ) ==
    JObject([type |-> JString(typ), userAgent |-> JString("RustCast")])

(***************************************************************************)
(* C15: every message the channel passes to the transport has the fixed     *)
(* connection namespace, the sender given at construction as its source,    *)
(* the destination of the call as its destination and a Text payload whose  *)
(* body is {type, userAgent} with type CONNECT for connect and CLOSE for    *)
(* disconnect and the constant user agent; can_handle is true of it.        *)
(***************************************************************************)
C15_EmittedFrames ==
    /\ sender = Sender
    /\ \A k \in 1..Len(sent) :
         LET m == sent[k].message
             call == calls[sent[k].call]
         IN /\ m.namespace = "urn:x-cast:com.google.cast.tp.connection"
            /\ m.source = Sender
            /\ m.destination = call.arg.destination
            /\ m.payload.variant = "String"
            /\ call.op \in {"connect", "disconnect"}
            /\ from_str(m.payload.data) =
                  Ok(RequestBody(IF call.op = "connect" THEN "CONNECT" ELSE "CLOSE"))
            /\ can_handle(m)

C15_Witness ==
    \E k, n \in 1..Len(sent) :
        /\ calls[sent[k].call].op = "connect"
        /\ calls[sent[n].call].op = "disconnect"
        /\ sent[k].message.destination # sent[n].message.destination
        /\ can_handle(sent[k].message) /\ can_handle(sent[n].message)


\* The step is the return of a call of op (a call that returns in the step
\* in which it starts included).
Returns(i, op) ==
    /\ i \in 1..Len(calls')
    /\ calls'[i].op = op
    /\ calls'[i].result.tag # "Running"
    /\ i \in 1..Len(calls) => calls[i].result.tag = "Running"

(***************************************************************************)
(* C16: connected changes only in connect, and only by the insertion of the *)
(* call's destination after its send succeeded; disconnect, can_handle and  *)
(* parse leave it unchanged whatever they return, so does a connect that is *)
(* suppressed or fails, and can_handle and parse pass nothing to the        *)
(* transport.                                                               *)
(***************************************************************************)
C16_OnlyConnectInserts ==
    [][ /\ connections' # connections =>
             \E t \in Threads :
                /\ pc[t] = "insert" /\ pc'[t] = "idle"
                /\ connections' = connections \cup {calls[cur[t]].arg.destination}
                /\ calls'[cur[t]].result = Ok(Unit)
                /\ \E k \in SendsOf(cur[t]) : sent[k].result.tag = "Ok"
                /\ sent' = sent
        /\ \A i \in 1..Len(calls') :
             /\ Returns(i, "disconnect") => connections' = connections
             /\ (Returns(i, "can_handle") \/ Returns(i, "parse")) =>
                    (connections' = connections /\ sent' = sent)
             /\ (Returns(i, "connect") /\ calls'[i].result.tag = "Err") =>
                    connections' = connections
             /\ (Returns(i, "connect") /\ i \notin 1..Len(calls)) =>
                    (connections' = connections /\ sent' = sent) ]_vars

C16_Witness ==
    \E i, j, k \in 1..Len(calls) : \E d \in Destinations :
        /\ IsConnectCall(i, d) /\ calls[i].result.tag = "Err"
        /\ IsDisconnectCall(j, d) /\ calls[j].result.tag = "Ok"
        /\ calls[k].op = "parse" /\ calls[k].result.tag = "Ok"
        /\ connections = {}
        /\ Len(sent) = 2

(***************************************************************************)
(* C17: in every interleaving, a connect(d) call that starts after some     *)
(* connect(d) call has returned success passes no frame to the transport    *)
(* and returns success; so every call that passes a CONNECT frame for d     *)
(* made its membership test before any connect(d) call returned success.    *)
(***************************************************************************)
C17_SuppressedAfterSuccess ==
    \A d \in Destinations : \A i, j \in 1..Len(calls) :
        ( /\ IsConnectCall(i, d) /\ calls[i].result.tag = "Ok"
          /\ IsConnectCall(j, d) /\ i \in calls[j].after )
        => /\ calls[j].result = Ok(Unit)
           /\ SendsOf(j) = {}

C17_Witness ==
    \E d \in Destinations : \E i, j, k \in 1..Len(calls) :
        /\ IsConnectCall(i, d) /\ IsConnectCall(j, d) /\ IsConnectCall(k, d)
        /\ i < j /\ i \notin calls[j].after
        /\ SendsOf(i) # {} /\ SendsOf(j) # {}
        /\ calls[i].result.tag = "Ok"
        /\ i \in calls[k].after
        /\ calls[k].result = Ok(Unit) /\ SendsOf(k) = {}

\* No two calls overlapped: every call started after all the calls before it
\* had returned; and every call has returned.
Sequential == \A j \in 1..Len(calls) : calls[j].after = 1..(j - 1)
AllReturned == \A j \in 1..Len(calls) : IsReturned(j)

\* The CONNECT frames for d that the transport accepted, and those it
\* refused.
SentConnectFramesFor(d) == { k \in ConnectFramesFor(d) : sent[k].result.tag = "Ok" }
FailedConnectFramesFor(d) == { k \in ConnectFramesFor(d) : sent[k].result.tag = "Err" }

(***************************************************************************)
(* C18: when the calls on the channel do not overlap, after any sequence of *)
(* connect and disconnect calls with any transport successes and failures,  *)
(* at most one CONNECT frame has been sent successfully per destination,    *)
(* and connected is exactly the set of destinations for which a CONNECT     *)
(* send has succeeded.                                                      *)
(***************************************************************************)
C18_SequentialExactlyTheSent ==
    (Sequential /\ AllReturned) =>
        /\ \A d \in Destinations : Cardinality(SentConnectFramesFor(d)) <= 1
        /\ connections = { d \in Destinations : SentConnectFramesFor(d) # {} }

C18_Witness ==
    \E d1, d2 \in Destinations :
        /\ Sequential /\ AllReturned
        /\ Len(calls) = 3
        /\ IsConnectCall(1, d1) /\ calls[1].result.tag = "Ok"
        /\ IsDisconnectCall(2, d1) /\ calls[2].result.tag = "Ok"
        /\ IsConnectCall(3, d2) /\ calls[3].result.tag = "Err"
        /\ connections = {d1}

(***************************************************************************)
(* C19: a failed connect is not remembered: in a run without overlapping    *)
(* calls, the connect(d) that follows a connect(d) that returned the        *)
(* transport error passes a new CONNECT frame to the transport, and the     *)
(* number of CONNECT sends for d is the number of failed ones plus at most  *)
(* one.                                                                     *)
(***************************************************************************)
C19_FailureNotRemembered ==
    Sequential =>
        \A d \in Destinations :
            /\ \A i, j \in 1..Len(calls) :
                 ( /\ IsConnectCall(i, d) /\ calls[i].result.tag = "Err"
                   /\ IsConnectCall(j, d) /\ i < j /\ IsReturned(j)
                   /\ \A n \in ConnectCalls(d) : ~(i < n /\ n < j) )
                 => \E k \in 1..Len(sent) :
                      /\ SendsOf(j) = {k}
                      /\ IsConnectFrame(sent[k].message)
                      /\ sent[k].message.destination = d
            /\ Cardinality(ConnectFramesFor(d)) <= Cardinality(FailedConnectFramesFor(d)) + 1
            /\ Cardinality(ConnectFramesFor(d)) >= Cardinality(FailedConnectFramesFor(d))

C19_Witness ==
    \E d \in Destinations :
        /\ Sequential /\ AllReturned
        /\ ConnectCalls(d) = {1, 2, 3}
        /\ calls[1].result.tag = "Err"
        /\ calls[2].result.tag = "Err"
        /\ calls[3].result.tag = "Ok"
        /\ Cardinality(ConnectFramesFor(d)) = 3
        /\ Cardinality(FailedConnectFramesFor(d)) = 2
        /\ d \in connections


(***************************************************************************)
(* C20: the channel cannot deadlock on its own lock: a caller that is at    *)
(* its send or about to insert does not hold the lock on connected, and     *)
(* under fair scheduling with a send that always returns every call that    *)
(* has started eventually returns, for concurrent callers and any mix of    *)
(* destinations.                                                            *)
(***************************************************************************)
C20_NoDeadlock ==
    /\ [](\A t \in Threads : pc[t] \in {"send", "insert"} => lock # t)
    /\ \A t \in Threads : (pc[t] # "idle") ~> (pc[t] = "idle" /\ cur[t] = 0)

C20_Witness ==
    /\ pc = [t \in Threads |-> "insert"]
    /\ lock = "free"
    /\ \E d \in Destinations : \A t \in Threads : calls[cur[t]].arg.destination = d

====
